---- MODULE Spec2Model ----
(***************************************************************************)
(* Model of api/models/channel.js: the channel data-access layer.          *)
(*                                                                         *)
(* The database is modelled by what the queries of the file use of it:     *)
(* a table is a sequence of documents in insertion order, a document is a  *)
(* function from field names to values (an optional field is a field that  *)
(* is not in the document's domain), the primary key of the channels table *)
(* is the position of the document, get of a missing key is Null, update   *)
(* merges a patch into the document and reports replaced / unchanged /     *)
(* skipped together with the old and the new value, eqJoin pairs every row *)
(* of its left side, in order, with the rows of the right table whose      *)
(* index equals the row's field.                                           *)
(*                                                                         *)
(* A call that awaits between two effects is one action per effect: the    *)
(* insert of createChannel and the callbacks that run when its response    *)
(* arrives, the read of editChannel and its update, the two counts of       *)
(* getChannelMetaData.  Other calls may complete between the two.  A call   *)
(* evaluates new Date() when it builds its query; the query executes       *)
(* later, after queries of calls made since.  An update marked nonAtomic   *)
(* reads the document, computes the new one and replaces the document,     *)
(* as three moments; an update of a selection of documents selects and     *)
(* updates them one by one.  The calls in flight are a bag: two calls with *)
(* the same input that have seen the same are two calls.                   *)
(***************************************************************************)
EXTENDS Integers, Sequences, FiniteSets, Bags, TLC

VARIABLES
    channels,       \* the 'channels' table
    usersChannels,  \* the 'usersChannels' table (written elsewhere)
    threads,        \* the 'threads' table (written elsewhere)
    queue,          \* jobs added to sendChannelNotificationQueue
    clock,          \* the value new Date() returns
    uuids,          \* how many values db.uuid() has returned
    inflight,       \* editChannel calls between their read and their write
    pending,        \* createChannel calls whose insert has not been answered
    meta,           \* getChannelMetaData calls with a count not yet answered
    sent,           \* write queries built and not yet executed to their end
    last,           \* the last write executed or call completed, its result
    deleted,        \* what deleteChannel has soft-deleted: id and slug held
    calls           \* how many calls have completed

vars == <<channels, usersChannels, threads, queue, clock, uuids, inflight,
          pending, meta, sent, last, deleted, calls>>

----------------------------------------------------------------------------
(* Bounds *)

MaxChannels == 2
MaxTime == 2
MaxUuids == 2
MaxInflight == 2
MaxCalls == 4
MaxRows == 1

----------------------------------------------------------------------------
(* Input domains *)

Communities == {"c1", "c2"}
Users == {"u1", "u2"}

\* the communities table: id -> slug
CommunitySlug(c) == IF c = "c1" THEN "c1-slug" ELSE "c2-slug"

\* ids callers pass: the ids the database has issued, and 0, an id that no
\* channel ever has
CallIds == 0..Len(channels)

\* ids getChannelMetaData is called with: also the id of a channel that is
\* inserted while the call is in flight
MetaIds == 0..MaxChannels

UuidPool == <<"uuid-1", "uuid-2", "uuid-3", "uuid-4", "uuid-5", "uuid-6">>

GeneralPreset ==
    [name |-> "General", slug |-> "general",
     description |-> "General Chatter", isPrivate |-> FALSE, isDefault |-> TRUE]

OffTopicPreset ==
    [name |-> "Off Topic", slug |-> "offtopic",
     description |-> "Random banter and off-topic discussions",
     isPrivate |-> FALSE, isDefault |-> FALSE]

SecretFields ==
    [name |-> "Secret", slug |-> "secret",
     description |-> "Staff only", isPrivate |-> TRUE, isDefault |-> FALSE]

\* inputs of createChannel other than the two presets
CreateFields == {SecretFields}

\* who creates channels, and where: <<communityId, userId>>
CreateCalls == {<<"c1", "u1">>, <<"c2", "u2">>}

\* name / slug / description / isPrivate inputs of editChannel
EditFields ==
    { [name |-> "General", slug |-> "general",
       description |-> "General Chatter", isPrivate |-> FALSE],
      [name |-> "Secret", slug |-> "secret",
       description |-> "Staff only", isPrivate |-> TRUE] }

\* rows the usersChannels table may hold: memberships of u1, of every kind;
\* the queries are made for u1 and for u2
MembershipRows ==
    [userId : {"u1"}, channelId : 1..MaxChannels,
     isMember : BOOLEAN, isBlocked : BOOLEAN, isPending : BOOLEAN]

\* the usersChannels tables of the read specification
MembershipTables == UNION {[1..n -> MembershipRows] : n \in 0..MaxRows}

\* the threads table: a live and a deleted thread of channel 1
ThreadsFixture ==
    << [id |-> "t1", channelId |-> 1],
       [id |-> "t2", channelId |-> 1, deletedAt |-> 1] >>

\* the usersChannels table of Spec: u1 is an active
\* member of every channel
MemberOfAll ==
    [i \in 1..MaxChannels |->
        [userId |-> "u1", channelId |-> i, isMember |-> TRUE,
         isBlocked |-> FALSE, isPending |-> FALSE]]

----------------------------------------------------------------------------
(* Documents *)

Null == [null |-> TRUE]

HasFields(doc, f) == f \in DOMAIN doc

Merge(doc, patch) ==
    [f \in DOMAIN doc \cup DOMAIN patch |->
        IF f \in DOMAIN patch THEN patch[f] ELSE doc[f]]

Without(doc, fs) == [f \in DOMAIN doc \ fs |-> doc[f]]

\* Object.assign({}, result, over): a null source contributes nothing
ObjectAssign(result, over) ==
    IF result = Null THEN over ELSE Merge(result, over)

\* db.table('channels').get(id)
Get(id) == IF id \in 1..Len(channels) THEN channels[id] ELSE Null

Now == clock

NextUuid == UuidPool[uuids + 1]

----------------------------------------------------------------------------
(* Writes of the database *)

\* get(id).update(patch) where the fields of `drop` are set to db.literal():
\* the write summary and the document after the write.  always = TRUE is
\* returnChanges: 'always', FALSE is returnChanges: true.
UpdateResult(old, patch, drop, always) ==
    IF old = Null
    THEN [replaced |-> 0, unchanged |-> 0, skipped |-> 1,
          changes |-> IF always THEN <<[old_val |-> Null, new_val |-> Null]>>
                      ELSE <<>>,
          doc |-> Null]
    ELSE LET new == Without(Merge(old, patch), drop)
         IN  [replaced |-> IF new # old THEN 1 ELSE 0,
              unchanged |-> IF new # old THEN 0 ELSE 1,
              skipped |-> 0,
              changes |-> IF always \/ new # old
                          THEN <<[old_val |-> old, new_val |-> new]>>
                          ELSE <<>>,
              doc |-> new]

\* the document with key id is replaced by new, the value a nonAtomic
\* update computed from the document it read: the write summary
ReplaceResult(cur, new, always) ==
    [replaced |-> IF new # cur THEN 1 ELSE 0,
     unchanged |-> IF new # cur THEN 0 ELSE 1,
     skipped |-> 0,
     changes |-> IF always \/ new # cur
                 THEN <<[old_val |-> cur, new_val |-> new]>>
                 ELSE <<>>,
     doc |-> new]

\* the write summary as the driver returns it
Summary(res) == Without(res, {"doc"})

\* the table after the document with key id became doc
Store(id, doc) ==
    IF id \in 1..Len(channels) /\ doc # Null
    THEN [channels EXCEPT ![id] = doc]
    ELSE channels

\* the editChannel calls in flight, each noting that write `op` to channel
\* `id` completed after its read
NoteOther(es, op, id) ==
    LET noted(e) == IF e.input.channelId = id
                    THEN [e EXCEPT !.others = Append(@, op)] ELSE e
    IN  [x \in {noted(e) : e \in BagToSet(es)} |->
            es[CHOOSE e \in BagToSet(es) : noted(e) = x]]

NoOp == [op |-> "none", id |-> 0, before |-> Null, ret |-> Null,
         threw |-> FALSE, arg |-> Null]

\* the calls that have started and not completed
InFlight ==
    BagCardinality(inflight) + Cardinality(pending) + BagCardinality(meta)
        + BagCardinality(sent)

\* the queries of `sent` of one kind
SentOf(op) == {q \in BagToSet(sent) : q.op = op}

\* how many of them
CountSent(op) == BagCardinality([q \in SentOf(op) |-> sent[q]])

\* the bag with one more, and with one less, of e
Put(b, e) == b (+) SetToBag({e})
Take(b, e) == b (-) SetToBag({e})

\* a further call may be made: those completed and those in flight are
\* fewer than MaxCalls
MayCall == calls + InFlight < MaxCalls

\* a further call that awaits may be made
MayAwait == MayCall /\ InFlight < MaxInflight

----------------------------------------------------------------------------
(* Read queries *)

Live(doc) == ~HasFields(doc, "deletedAt")

channelsByCommunitiesQuery(communityIds) ==
    SelectSeq(channels, LAMBDA c : c.communityId \in communityIds /\ Live(c))

GetAll(channelIds) ==
    SelectSeq([i \in 1..Len(channelIds) |-> Get(channelIds[i])],
              LAMBDA d : d # Null)

channelsByIdsQuery(channelIds) == SelectSeq(GetAll(channelIds), Live)

getChannelsByCommunity(communityId) ==
    channelsByCommunitiesQuery({communityId})

MapId(docs) == [i \in 1..Len(docs) |-> docs[i].id]

getPublicChannelsByCommunity(communityId) ==
    MapId(SelectSeq(channelsByCommunitiesQuery({communityId}),
                    LAMBDA c : c.isPrivate = FALSE))

getChannelById(id) ==
    LET r == channelsByIdsQuery(<<id>>)
    IN  IF Len(r) > 0 THEN r[1] ELSE Null

getChannels(channelIds) == channelsByIdsQuery(channelIds)

\* a.indexOf(x), 1-based
IndexOf(a, x) == CHOOSE i \in 1..Len(a) : a[i] = x /\ \A j \in 1..(i-1) : a[j] # x

\* the array itself, when the duplicates are left in
NotDistinct(a) == a

\* a.filter((x, i, a) => a.indexOf(x) == i)
Distinct(a) ==
    LET F[i \in 0..Len(a)] ==
            IF i = 0 THEN <<>>
            ELSE IF IndexOf(a, a[i]) = i THEN Append(F[i-1], a[i]) ELSE F[i-1]
    IN  F[Len(a)]

InSeq(a, x) == \E i \in 1..Len(a) : a[i] = x

getChannelsByUserAndCommunity(communityId, userId) ==
    LET chans == getChannelsByCommunity(communityId)
        channelIds == MapId(chans)
        publicChannels == MapId(SelectSeq(chans, LAMBDA c : ~c.isPrivate))
        rows == SelectSeq(usersChannels,
                    LAMBDA uc : /\ uc.userId = userId
                                /\ InSeq(channelIds, uc.channelId)
                                /\ uc.isMember = TRUE)
        usersChannelsIds == [i \in 1..Len(rows) |-> rows[i].channelId]
        allPossibleChannels == publicChannels \o usersChannelsIds
    IN  Distinct(allPossibleChannels)

\* getChannelsByUser without its last filter
getChannelsByUserUnfiltered(userId) ==
    LET rows == SelectSeq(usersChannels,
                    LAMBDA uc : uc.userId = userId /\ uc.isMember = TRUE)
        joined == SelectSeq(rows, LAMBDA uc : Get(uc.channelId) # Null)
    IN  [i \in 1..Len(joined) |->
            Merge(Without(joined[i], {"id", "channelId", "userId", "createdAt"}),
                  Get(joined[i].channelId))]

getChannelsByUser(userId) ==
    LET rows == SelectSeq(usersChannels,
                    LAMBDA uc : uc.userId = userId /\ uc.isMember = TRUE)
        joined == SelectSeq(rows, LAMBDA uc : Get(uc.channelId) # Null)
        zipped == [i \in 1..Len(joined) |->
                      Merge(Without(joined[i],
                                    {"id", "channelId", "userId", "createdAt"}),
                            Get(joined[i].channelId))]
    IN  SelectSeq(zipped, Live)

getChannelBySlug(channelSlug, communitySlug) ==
    LET result == SelectSeq(channels,
                      LAMBDA c : /\ c.slug = channelSlug
                                 /\ Live(c)
                                 /\ c.communityId \in Communities
                                 /\ CommunitySlug(c.communityId) = communitySlug)
    IN  IF Len(result) > 0 THEN result[1] ELSE Null

\* left.eqJoin(field, right, { index }): for every row of left, in order,
\* the rows of right whose index equals the row's field, as { left, right }
eqJoin(left, field, right, index) ==
    LET F[i \in 0..Len(left)] ==
            IF i = 0 THEN <<>>
            ELSE LET hits == SelectSeq(right,
                                 LAMBDA r : r[index] = left[i][field])
                 IN  F[i-1] \o [k \in 1..Len(hits) |->
                                   [left |-> left[i], right |-> hits[k]]]
    IN  F[Len(left)]

\* .map(row => row('right'))
MapRight(rows) == [i \in 1..Len(rows) |-> rows[i].right]

threadsByChannelsQuery(channelIds) ==
    SelectSeq(MapRight(eqJoin(channelsByIdsQuery(channelIds), "id",
                              threads, "channelId")),
              Live)

membersByChannelsQuery(channelIds) ==
    SelectSeq(MapRight(eqJoin(channelsByIdsQuery(channelIds), "id",
                              usersChannels, "channelId")),
              LAMBDA uc : /\ uc.isBlocked = FALSE
                          /\ uc.isPending = FALSE
                          /\ uc.isMember = TRUE)

\* the outcome of a query: a value, or the error the driver rejects with
Ok(v) == [threw |-> FALSE, val |-> v]
Err(e) == [threw |-> TRUE, err |-> e]

\* get(channelId)('members').count(): a bracket on null, or on a document
\* without the field, is a runtime error of the query
getChannelMemberCount(channelId) ==
    LET doc == Get(channelId)
    IN  IF doc = Null THEN Err("ReqlNonExistenceError")
        ELSE IF ~HasFields(doc, "members") THEN Err("ReqlNonExistenceError")
        ELSE Ok(Len(doc.members))

----------------------------------------------------------------------------
(* Operations *)

\* createChannel's call: the insert query is built, with new Date(), and sent
createChannel(input, userId) ==
    /\ MayAwait
    /\ Len(channels) + CountSent("insert") < MaxChannels
    /\ sent' = Put(sent,
                   [op |-> "insert",
                    doc |-> [communityId |-> input.communityId,
                             createdAt |-> Now,
                             name |-> input.name,
                             description |-> input.description,
                             slug |-> input.slug,
                             isPrivate |-> input.isPrivate,
                             isDefault |-> IF input.isDefault THEN TRUE
                                           ELSE FALSE],
                    userId |-> userId])
    /\ UNCHANGED <<channels, usersChannels, threads, queue, clock, uuids,
                   inflight, pending, meta, last, deleted, calls>>

\* the insert executes: the database gives the document its id.  The record
\* it returns as changes[0].new_val travels with the response.
createChannelInsert(q) ==
    /\ BagIn(q, sent)
    /\ q.op = "insert"
    /\ LET channel == Merge(q.doc, [id |-> Len(channels) + 1])
       IN  /\ channels' = Append(channels, channel)
           /\ pending' = pending \cup {[channel |-> channel,
                                        userId |-> q.userId]}
    /\ sent' = Take(sent, q)
    /\ UNCHANGED <<usersChannels, threads, queue, clock, uuids, inflight,
                   meta, last, deleted, calls>>

\* the callbacks of createChannel announcing private channels too
createChannelThenAlwaysNotifies(p) ==
    /\ p \in pending
    /\ calls' = calls + 1
    /\ pending' = pending \ {p}
    /\ queue' = Append(queue, [channel |-> p.channel, userId |-> p.userId])
    /\ last' = [NoOp EXCEPT !.op = "createChannel", !.id = p.channel.id,
                            !.before = Get(p.channel.id),
                            !.ret = p.channel, !.arg = p.userId]
    /\ UNCHANGED <<channels, usersChannels, threads, clock, uuids, inflight,
                   deleted, meta, sent>>

\* createChannel from its await on: the callbacks that run when the response
\* of the insert arrives, the notification of a public channel and the result
createChannelThen(p) ==
    /\ p \in pending
    /\ calls' = calls + 1
    /\ pending' = pending \ {p}
    /\ queue' = IF ~p.channel.isPrivate
                THEN Append(queue, [channel |-> p.channel, userId |-> p.userId])
                ELSE queue
    /\ last' = [NoOp EXCEPT !.op = "createChannel", !.id = p.channel.id,
                            !.before = Get(p.channel.id),
                            !.ret = p.channel, !.arg = p.userId]
    /\ UNCHANGED <<channels, usersChannels, threads, clock, uuids, inflight,
                   deleted, meta, sent>>

\* createGeneralChannel's call: createChannel's call with the preset;
\* createChannelInsert and createChannelThen are the rest of it
createGeneralChannel(communityId, userId) ==
    createChannel(Merge(GeneralPreset, [communityId |-> communityId]), userId)

\* createOffTopicChannel's call, likewise
createOffTopicChannel(communityId, userId) ==
    createChannel(Merge(OffTopicPreset, [communityId |-> communityId]), userId)

\* the four fields editChannel takes from its input
EditOverrides(input) ==
    [name |-> input.name, description |-> input.description,
     slug |-> input.slug, isPrivate |-> input.isPrivate]

\* editChannel's first query: the record read, and nothing written since
EditEntry(input) ==
    [input |-> input, read |-> Get(input.channelId), others |-> <<>>]

\* a patch of the four input fields alone
channelRecordOverridesOnly(e) == EditOverrides(e.input)

\* the channelRecord editChannel builds from what it read
channelRecordOf(e) == ObjectAssign(e.read, EditOverrides(e.input))

\* editChannel resolving to the old value of a replaced record
editChannelReturnsOld(result) ==
    IF result.replaced = 1 THEN result.changes[1].old_val
    ELSE IF result.unchanged = 1 THEN result.changes[1].old_val
    ELSE Null

\* what editChannel resolves to, from the write summary
editChannelReturn(result) ==
    IF result.replaced = 1 THEN result.changes[1].new_val
    ELSE IF result.unchanged = 1 THEN result.changes[1].old_val
    ELSE Null

\* editChannel's second query, the update, and the result
EditUpdate(e) ==
    LET id == e.input.channelId
        old == Get(id)
        result == UpdateResult(old, channelRecordOf(e), {}, TRUE)
    IN  /\ channels' = Store(id, result.doc)
        /\ last' = [NoOp EXCEPT !.op = "editChannel", !.id = id,
                                !.before = old,
                                !.ret = editChannelReturn(Summary(result)),
                                !.arg = e]

\* editChannel up to its first await: the read and the Object.assign
editChannelRead(input) ==
    /\ MayAwait
    /\ inflight' = inflight (+) SetToBag({EditEntry(input)})
    /\ UNCHANGED <<channels, usersChannels, threads, queue, clock, uuids,
                   pending, last, deleted, calls, meta, sent>>

\* editChannel from its first await on
editChannelWrite(e) ==
    /\ BagIn(e, inflight)
    /\ calls' = calls + 1
    /\ EditUpdate(e)
    /\ inflight' = NoteOther(inflight (-) SetToBag({e}), "editChannel",
                             e.input.channelId)
    /\ UNCHANGED <<usersChannels, threads, queue, clock, uuids, pending,
                   deleted, meta, sent>>

\* deleteChannel's call: the update is built, with new Date(), and sent
deleteChannel(channelId) ==
    /\ MayAwait
    /\ uuids + CountSent("delete") < MaxUuids
    /\ sent' = Put(sent, [op |-> "delete", channelId |-> channelId,
                          deletedAt |-> Now])
    /\ UNCHANGED <<channels, usersChannels, threads, queue, clock, uuids,
                   inflight, pending, meta, last, deleted, calls>>

\* the nonAtomic update reads the document and computes the new one, with
\* db.uuid(); on no document the update is skipped and the call completes
deleteChannelRead(q) ==
    /\ BagIn(q, sent)
    /\ q.op = "delete"
    /\ LET old == Get(q.channelId)
       IN  IF old = Null
           THEN /\ sent' = Take(sent, q)
                /\ calls' = calls + 1
                /\ last' = [NoOp EXCEPT
                               !.op = "deleteChannel", !.id = q.channelId,
                               !.ret = Summary(UpdateResult(Null, <<>>, {},
                                                            FALSE))]
                /\ UNCHANGED uuids
           ELSE /\ sent' = Put(Take(sent, q),
                               [op |-> "replace", channelId |-> q.channelId,
                                new |-> Merge(old, [deletedAt |-> q.deletedAt,
                                                    slug |-> NextUuid])])
                /\ uuids' = uuids + 1
                /\ UNCHANGED <<last, calls>>
    /\ UNCHANGED <<channels, usersChannels, threads, queue, clock, inflight,
                   pending, meta, deleted>>

\* the nonAtomic update replaces the document by the one it computed
deleteChannelReplace(q) ==
    /\ BagIn(q, sent)
    /\ q.op = "replace"
    /\ LET cur == Get(q.channelId)
           result == ReplaceResult(cur, q.new, FALSE)
       IN  /\ channels' = Store(q.channelId, result.doc)
           /\ deleted' = deleted \cup {[id |-> q.channelId, slug |-> cur.slug]}
           /\ last' = [NoOp EXCEPT !.op = "deleteChannel", !.id = q.channelId,
                                   !.before = cur,
                                   !.ret = Summary(result)]
    /\ sent' = Take(sent, q)
    /\ calls' = calls + 1
    /\ inflight' = NoteOther(inflight, "deleteChannel", q.channelId)
    /\ UNCHANGED <<usersChannels, threads, queue, clock, uuids, pending, meta>>

\* result.changes[0].old_val || result.changes[0].new_val
OldOrNew(result) ==
    IF result.changes[1].old_val # Null
    THEN result.changes[1].old_val
    ELSE result.changes[1].new_val

\* result.changes[0].new_val || result.changes[0].old_val
NewOrOld(result) ==
    IF result.changes[1].new_val # Null
    THEN result.changes[1].new_val
    ELSE result.changes[1].old_val

\* archiveChannel's call: the update is built, with new Date(), and sent
archiveChannel(channelId) ==
    /\ MayAwait
    /\ sent' = Put(sent, [op |-> "archive", channelId |-> channelId,
                          archivedAt |-> Now])
    /\ UNCHANGED <<channels, usersChannels, threads, queue, clock, uuids,
                   inflight, pending, meta, last, deleted, calls>>

\* the update executes, and the callback takes the result
archiveChannelUpdate(q) ==
    /\ BagIn(q, sent)
    /\ q.op = "archive"
    /\ calls' = calls + 1
    /\ LET old == Get(q.channelId)
           result == UpdateResult(old, [archivedAt |-> q.archivedAt], {}, TRUE)
       IN  /\ channels' = Store(q.channelId, result.doc)
           /\ last' = [NoOp EXCEPT !.op = "archiveChannel",
                                   !.id = q.channelId,
                                   !.before = old,
                                   !.threw = (Len(result.changes) = 0),
                                   !.ret = IF Len(result.changes) = 0 THEN Null
                                           ELSE NewOrOld(Summary(result))]
    /\ sent' = Take(sent, q)
    /\ inflight' = NoteOther(inflight, "archiveChannel", q.channelId)
    /\ UNCHANGED <<usersChannels, threads, queue, clock, uuids, pending,
                   deleted, meta>>

restoreChannel(channelId) ==
    /\ MayCall
    /\ calls' = calls + 1
    /\ LET old == Get(channelId)
           result == UpdateResult(old, <<>>, {"archivedAt"}, TRUE)
       IN  /\ channels' = Store(channelId, result.doc)
           /\ last' = [NoOp EXCEPT !.op = "restoreChannel", !.id = channelId,
                                   !.before = old,
                                   !.threw = (Len(result.changes) = 0),
                                   !.ret = IF Len(result.changes) = 0 THEN Null
                                           ELSE NewOrOld(Summary(result)),
                                   !.arg = IF last.op = "archiveChannel"
                                              /\ last.id = channelId
                                           THEN last.before ELSE Null]
    /\ inflight' = NoteOther(inflight, "restoreChannel", channelId)
    /\ UNCHANGED <<usersChannels, threads, queue, clock, uuids, pending,
                   deleted, meta, sent>>

\* archiveAllPrivateChannels' call: the update is built, with new Date(), and
\* sent.  seen are the documents the selection has read, todo those it
\* selected and has not updated yet.
archiveAllPrivateChannels(communityId) ==
    /\ MayAwait
    /\ sent' = Put(sent, [op |-> "archiveAll", communityId |-> communityId,
                          archivedAt |-> Now, seen |-> {}, todo |-> {},
                          replaced |-> 0, unchanged |-> 0])
    /\ UNCHANGED <<channels, usersChannels, threads, queue, clock, uuids,
                   inflight, pending, meta, last, deleted, calls>>

\* getAll(communityId, { index }).filter({ isPrivate: true }) reads a document
archiveAllPrivateChannelsSelect(q, i) ==
    /\ BagIn(q, sent)
    /\ q.op = "archiveAll"
    /\ i \in (1..Len(channels)) \ q.seen
    /\ LET hit == /\ channels[i].communityId = q.communityId
                  /\ channels[i].isPrivate = TRUE
       IN  sent' = Put(Take(sent, q),
                       [q EXCEPT !.seen = @ \cup {i},
                                 !.todo = IF hit THEN @ \cup {i} ELSE @])
    /\ UNCHANGED <<channels, usersChannels, threads, queue, clock, uuids,
                   inflight, pending, meta, last, deleted, calls>>

\* .update({ archivedAt }) of one selected document
archiveAllPrivateChannelsUpdate(q, i) ==
    /\ BagIn(q, sent)
    /\ q.op = "archiveAll"
    /\ i \in q.todo
    /\ LET result == UpdateResult(channels[i], [archivedAt |-> q.archivedAt],
                                  {}, FALSE)
       IN  /\ channels' = Store(i, result.doc)
           /\ sent' = Put(Take(sent, q),
                          [q EXCEPT !.todo = @ \ {i},
                                    !.replaced = @ + result.replaced,
                                    !.unchanged = @ + result.unchanged])
           /\ last' = [NoOp EXCEPT !.op = "archiveAllPrivateChannelsUpdate",
                                   !.id = i, !.before = channels[i]]
    /\ inflight' = NoteOther(inflight, "archiveAllPrivateChannels", i)
    /\ UNCHANGED <<usersChannels, threads, queue, clock, uuids, pending, meta,
                   deleted, calls>>

\* every document is read and every selected one updated: the write summary
archiveAllPrivateChannelsDone(q) ==
    /\ BagIn(q, sent)
    /\ q.op = "archiveAll"
    /\ q.seen = 1..Len(channels)
    /\ q.todo = {}
    /\ sent' = Take(sent, q)
    /\ calls' = calls + 1
    /\ last' = [NoOp EXCEPT !.op = "archiveAllPrivateChannels",
                            !.ret = [replaced |-> q.replaced,
                                     unchanged |-> q.unchanged]]
    /\ UNCHANGED <<channels, usersChannels, threads, queue, clock, uuids,
                   inflight, pending, meta, deleted>>

\* getChannelMetaData's call: both counts are sent, none is answered yet
getChannelMetaData(channelId) ==
    /\ MayAwait
    /\ meta' = meta (+) SetToBag({[channelId |-> channelId, counts |-> <<>>]})
    /\ UNCHANGED <<channels, usersChannels, threads, queue, clock, uuids,
                   inflight, pending, last, deleted, calls, sent>>

\* a count of getChannelMetaData is answered; with the second of the two
\* Promise.all resolves to [thread count, member count]
MetaAnswer(m, field, count) ==
    /\ BagIn(m, meta)
    /\ ~HasFields(m.counts, field)
    /\ LET counts == Merge(m.counts, field :> count)
           rest == meta (-) SetToBag({m})
       IN  IF DOMAIN counts = {"threads", "members"}
           THEN /\ meta' = rest
                /\ calls' = calls + 1
                /\ last' = [NoOp EXCEPT !.op = "getChannelMetaData",
                                        !.id = m.channelId,
                                        !.before = Get(m.channelId),
                                        !.ret = <<counts.threads,
                                                  counts.members>>]
           ELSE /\ meta' = rest (+) SetToBag({[m EXCEPT !.counts = counts]})
                /\ UNCHANGED <<last, calls>>
    /\ UNCHANGED <<channels, usersChannels, threads, queue, clock, uuids,
                   inflight, pending, deleted, sent>>

\* threadsByChannelsQuery(channelId).count().run()
getThreadCount(m) ==
    MetaAnswer(m, "threads", Len(threadsByChannelsQuery(<<m.channelId>>)))

\* membersByChannelsQuery(channelId).count().run()
getMemberCount(m) ==
    MetaAnswer(m, "members", Len(membersByChannelsQuery(<<m.channelId>>)))

Tick ==
    /\ clock < MaxTime
    /\ clock' = clock + 1
    /\ UNCHANGED <<channels, usersChannels, threads, queue, uuids, inflight,
                   pending, last, deleted, calls, meta, sent>>

----------------------------------------------------------------------------

InitWith(memberships) ==
    /\ channels = <<>>
    /\ usersChannels \in memberships
    /\ threads = ThreadsFixture
    /\ queue = <<>>
    /\ clock = 1
    /\ uuids = 0
    /\ inflight = EmptyBag
    /\ pending = {}
    /\ meta = EmptyBag
    /\ sent = EmptyBag
    /\ last = NoOp
    /\ deleted = {}
    /\ calls = 0

Init == InitWith({MemberOfAll})

\* calls that overlap: a call may start, and a query may execute or a
\* response be delivered, while other calls are in flight
Next ==
    \/ \E f \in CreateFields, cu \in CreateCalls :
          createChannel(Merge(f, [communityId |-> cu[1]]), cu[2])
    \/ \E cu \in CreateCalls : createGeneralChannel(cu[1], cu[2])
    \/ \E cu \in CreateCalls : createOffTopicChannel(cu[1], cu[2])
    \/ \E q \in SentOf("insert") : createChannelInsert(q)
    \/ \E p \in pending : createChannelThen(p)
    \/ \E id \in CallIds, f \in EditFields :
          editChannelRead(Merge(f, [channelId |-> id]))
    \/ \E e \in BagToSet(inflight) : editChannelWrite(e)
    \/ \E id \in MetaIds : getChannelMetaData(id)
    \/ \E m \in BagToSet(meta) : getThreadCount(m)
    \/ \E m \in BagToSet(meta) : getMemberCount(m)
    \/ \E id \in CallIds : deleteChannel(id)
    \/ \E q \in SentOf("delete") : deleteChannelRead(q)
    \/ \E q \in SentOf("replace") : deleteChannelReplace(q)
    \/ \E id \in CallIds : archiveChannel(id)
    \/ \E q \in SentOf("archive") : archiveChannelUpdate(q)
    \/ \E id \in CallIds : restoreChannel(id)
    \/ \E c \in Communities : archiveAllPrivateChannels(c)
    \/ \E q \in SentOf("archiveAll"), i \in 1..MaxChannels :
          archiveAllPrivateChannelsSelect(q, i)
    \/ \E q \in SentOf("archiveAll"), i \in 1..MaxChannels :
          archiveAllPrivateChannelsUpdate(q, i)
    \/ \E q \in SentOf("archiveAll") : archiveAllPrivateChannelsDone(q)
    \/ Tick

Spec == Init /\ [][Next]_vars

\* the read queries over every usersChannels table, as private and public
\* channels are created and deleted
InitReads == InitWith(MembershipTables)

NextReads ==
    \/ \E f \in CreateFields, cu \in CreateCalls :
          createChannel(Merge(f, [communityId |-> cu[1]]), cu[2])
    \/ \E cu \in CreateCalls : createGeneralChannel(cu[1], cu[2])
    \/ \E q \in SentOf("insert") : createChannelInsert(q)
    \/ \E p \in pending : createChannelThen(p)
    \/ \E id \in CallIds : deleteChannel(id)
    \/ \E q \in SentOf("delete") : deleteChannelRead(q)
    \/ \E q \in SentOf("replace") : deleteChannelReplace(q)

SpecReads == InitReads /\ [][NextReads]_vars

----------------------------------------------------------------------------
(* Arguments the properties range over *)

AllSlugs ==
    {"general", "offtopic", "secret"} \cup {UuidPool[i] : i \in 1..Len(UuidPool)}

AllIds == 0..MaxChannels

IdLists == {<<>>} \cup {<<i>> : i \in AllIds} \cup {<<i, j>> : i, j \in AllIds}

DeletedIds == {d.id : d \in deleted}

SameCommunity(i, j) == channels[i].communityId = channels[j].communityId

\* some read query returns the channel with this id, or its id
ReturnedByARead(id) ==
    \/ getChannelById(id) # Null
    \/ \E ids \in IdLists : InSeq(MapId(getChannels(ids)), id)
    \/ \E c \in Communities :
          \/ InSeq(MapId(getChannelsByCommunity(c)), id)
          \/ InSeq(getPublicChannelsByCommunity(c), id)
          \/ \E u \in Users : InSeq(getChannelsByUserAndCommunity(c, u), id)
          \/ \E sl \in AllSlugs :
                LET r == getChannelBySlug(sl, CommunitySlug(c))
                IN  r # Null /\ r.id = id
    \/ \E u \in Users : InSeq(MapId(getChannelsByUser(u)), id)

----------------------------------------------------------------------------
(* C1: soft delete is permanent and hides the channel from reads.  Once
   deleteChannel(id) has completed on a record, in every later state the
   record has deletedAt, getChannelById(id) is null, and no read query
   returns the channel or its id. *)
C1_SoftDeletePermanent ==
    \A id \in DeletedIds :
        /\ HasFields(Get(id), "deletedAt")
        /\ getChannelById(id) = Null
        /\ ~ReturnedByARead(id)

\* a later call has written to a soft-deleted channel of which u1 is a member
C1_Witness ==
    /\ last.id \in DeletedIds
    /\ last.op \in {"editChannel", "restoreChannel", "archiveChannel"}
    /\ \E i \in 1..Len(usersChannels) :
          usersChannels[i].channelId = last.id /\ usersChannels[i].isMember

\* the user has an active membership of the channel
ActiveMember(userId, channelId) ==
    \E i \in 1..Len(usersChannels) :
        /\ usersChannels[i].userId = userId
        /\ usersChannels[i].channelId = channelId
        /\ usersChannels[i].isMember = TRUE
        /\ usersChannels[i].isBlocked = FALSE
        /\ usersChannels[i].isPending = FALSE

(* C2: private-channel visibility.  getChannelsByUserAndCommunity(C, U)
   holds the id of a private channel, and getChannelsByUser(U) holds a
   channel, only if U is an active member of it (isMember, not blocked, not
   pending). *)
C2_PrivateVisibility ==
    \A u \in Users :
        /\ \A c \in Communities :
              LET ids == getChannelsByUserAndCommunity(c, u)
              IN  \A i \in 1..Len(ids) :
                     Get(ids[i]).isPrivate => ActiveMember(u, ids[i])
        /\ LET docs == getChannelsByUser(u)
           IN  \A i \in 1..Len(docs) : ActiveMember(u, docs[i].id)

(* C3: not-found never raises.  For an id with no channel record, every
   operation that takes a channel id resolves to null, an empty collection
   or zero counts, never to an error, and a write leaves no record. *)
C3_NotFoundNeverRaises ==
    /\ \A id \in AllIds :
          Get(id) = Null =>
            /\ getChannelById(id) = Null
            /\ getChannels(<<id>>) = <<>>
            /\ Len(threadsByChannelsQuery(<<id>>)) = 0
            /\ Len(membersByChannelsQuery(<<id>>)) = 0
            /\ ~getChannelMemberCount(id).threw
    /\ (last.op = "getChannelMetaData" /\ Get(last.id) = Null)
       => /\ ~last.threw
          /\ last.ret = <<0, 0>>
    /\ ( /\ last.op \in {"editChannel", "deleteChannel", "archiveChannel",
                          "restoreChannel"}
         /\ last.before = Null )
       => /\ ~last.threw
          /\ Get(last.id) = Null

(* C4: createChannel enqueues a new-channel notification if and only if the
   inserted channel is not private.  The callbacks of a createChannel call
   run once, when the response of its insert arrives: that step appends
   exactly one job, whose payload is the inserted record and the creator's
   userId, if the record is not private, and none if it is; every other
   step (a call, an insert, an edit's read or write, a delete, an archive,
   a restore) leaves the queue as it was; the record inserted is the one
   the call built, with the id the database gave it, and it awaits its
   callbacks with the caller's userId; the call of a preset wrapper sends a
   non-private record for its caller, so its callbacks always append
   one. *)
C4_NotifyIffPublic ==
    [][ LET inserted == Len(channels') = Len(channels) + 1
            channel == channels'[Len(channels')]
        IN  /\ \/ /\ pending \subseteq pending'
                  /\ queue' = queue
               \/ \E p \in pending :
                     /\ pending' = pending \ {p}
                     /\ last'.op = "createChannel"
                     /\ last'.ret = p.channel
                     /\ queue' = IF ~p.channel.isPrivate
                                 THEN Append(queue, [channel |-> p.channel,
                                                     userId |-> p.userId])
                                 ELSE queue
            /\ inserted <=> pending' # pending /\ pending \subseteq pending'
            /\ inserted =>
                  \E q \in SentOf("insert") :
                     /\ sent' = Take(sent, q)
                     /\ channel = Merge(q.doc, [id |-> Len(channels')])
                     /\ pending' = pending \cup {[channel |-> channel,
                                                  userId |-> q.userId]}
            /\ \A cu \in CreateCalls :
                  ( \/ createGeneralChannel(cu[1], cu[2])
                    \/ createOffTopicChannel(cu[1], cu[2]) )
                  => \E q \in BagToSet(sent') :
                        /\ sent' = Put(sent, q)
                        /\ q.op = "insert"
                        /\ ~q.doc.isPrivate
                        /\ q.userId = cu[2]
      ]_vars

\* a private channel was created and not announced; a public channel was
\* deleted before the response of its insert arrived and was announced all
\* the same, with the record as inserted
C4_Witness ==
    /\ last.op = "createChannel"
    /\ last.id = 1
    /\ ~last.ret.isPrivate
    /\ HasFields(last.before, "deletedAt")
    /\ last.ret.slug # last.before.slug
    /\ pending = {}
    /\ Len(channels) = 2
    /\ channels[2].isPrivate
    /\ queue = <<[channel |-> last.ret, userId |-> last.arg]>>

(* C5: deleteChannel frees the slug.  After deleteChannel(id) the record has
   a slug that differs from the slug it held and from the slug of every
   other channel; a channel then created in the community with the old slug
   (and still as inserted when its call completes) is what getChannelBySlug
   returns; and a deleted channel never again holds the slug of a live
   channel of its community. *)
C5_DeleteFreesSlug ==
    /\ (last.op = "deleteChannel" /\ last.before # Null) =>
          /\ Get(last.id).slug # last.before.slug
          /\ \A j \in 1..Len(channels) :
                j # last.id => channels[j].slug # Get(last.id).slug
    /\ (last.op = "createChannel" /\ last.before = last.ret) =>
          \A d \in deleted :
             (d.slug = last.ret.slug /\ SameCommunity(d.id, last.id)) =>
                getChannelBySlug(d.slug, CommunitySlug(last.ret.communityId))
                   = last.ret
    /\ \A id \in DeletedIds : \A j \in 1..Len(channels) :
          (Live(channels[j]) /\ SameCommunity(id, j)) =>
             channels[id].slug # channels[j].slug

(* C6: editChannel's result when no write to the channel completes between
   its read and its write.  If the record exists and one of name, description, slug,
   isPrivate differs from the stored value, the result is the record after
   the update, which has those four fields set to the input and every other
   field as before; if all four are identical the result is the pre-update
   record and the table is unchanged; if no record has the id the result is
   null and the table is unchanged. *)
C6_EditResult ==
    [][ (calls' # calls /\ last'.op = "editChannel"
            /\ last'.arg.others = <<>> /\ last'.arg.read = Get(last'.id))
        => LET id == last'.id
               input == last'.arg.input
               old == Get(id)
               four == {"name", "description", "slug", "isPrivate"}
           IN  IF old = Null
               THEN last'.ret = Null /\ channels' = channels
               ELSE IF \E f \in four : old[f] # input[f]
               THEN /\ last'.ret = channels'[id]
                    /\ DOMAIN channels'[id] = DOMAIN old
                    /\ \A f \in four : channels'[id][f] = input[f]
                    /\ \A f \in DOMAIN old \ four : channels'[id][f] = old[f]
                    /\ \A j \in 1..Len(channels) :
                          j # id => channels'[j] = channels[j]
                    /\ Len(channels') = Len(channels)
               ELSE last'.ret = old /\ channels' = channels
      ]_vars

\* an edit changed an archived channel and returned the new record
C6_Witness ==
    /\ last.op = "editChannel"
    /\ last.before # Null
    /\ last.arg.others = <<>>
    /\ last.arg.read = last.before
    /\ last.ret # last.before
    /\ last.ret = Get(last.id)
    /\ HasFields(last.ret, "archivedAt")

(* C7: a channel's slug is unique within its community while not deleted:
   no two channels without deletedAt that share a communityId have the same
   slug. *)
C7_SlugUniqueInCommunity ==
    \A i, j \in 1..Len(channels) :
        (i # j /\ Live(channels[i]) /\ Live(channels[j]) /\ SameCommunity(i, j))
           => channels[i].slug # channels[j].slug

(* C8: getChannelsByUserAndCommunity(C, U) has no duplicate ids, holds only
   ids of channels getChannelsByCommunity(C) returns, holds the id of every
   live non-private channel of C, and starts with the public ids. *)
C8_UserAndCommunityIsSet ==
    \A c \in Communities, u \in Users :
        LET ids == getChannelsByUserAndCommunity(c, u)
            all == MapId(getChannelsByCommunity(c))
            pub == getPublicChannelsByCommunity(c)
        IN  /\ \A i, j \in 1..Len(ids) : i # j => ids[i] # ids[j]
            /\ \A i \in 1..Len(ids) : InSeq(all, ids[i])
            /\ \A k \in 1..Len(channels) :
                  ( /\ Live(channels[k])
                    /\ channels[k].communityId = c
                    /\ ~channels[k].isPrivate ) => InSeq(ids, k)
            /\ Len(pub) <= Len(ids)
            /\ SubSeq(ids, 1, Len(pub)) = pub

\* a user is a member of the second of two public channels of a community:
\* that id comes from both lists and is returned once, in its place among
\* the public ids
C8_Witness ==
    \E c \in Communities, u \in Users :
        /\ Len(channels) = 2
        /\ \A k \in 1..2 : /\ Live(channels[k])
                           /\ ~channels[k].isPrivate
                           /\ channels[k].communityId = c
        /\ ActiveMember(u, 2)
        /\ getChannelsByUserAndCommunity(c, u) = <<1, 2>>

(* C9: archive / restore round trip.  archiveChannel and restoreChannel on
   an existing channel return the resulting record; archiveChannel changes
   nothing but archivedAt; restoreChannel right after archiveChannel leaves
   the channel without archivedAt and with every other field as it was
   before archiveChannel; restoreChannel on a channel that is not archived
   returns the unchanged record. *)
C9_ArchiveRestoreRoundTrip ==
    LET cur == Get(last.id)
        rest(d) == Without(d, {"archivedAt"})
    IN  /\ (last.op \in {"archiveChannel", "restoreChannel"}
              /\ last.before # Null)
           => /\ ~last.threw
              /\ last.ret = cur
              /\ rest(cur) = rest(last.before)
        /\ (last.op = "archiveChannel" /\ last.before # Null)
           => HasFields(cur, "archivedAt")
        /\ (last.op = "restoreChannel" /\ last.before # Null)
           => /\ ~HasFields(cur, "archivedAt")
              /\ ~HasFields(last.before, "archivedAt") => cur = last.before
              /\ last.arg # Null => rest(cur) = rest(last.arg)

\* restoreChannel ran right after archiveChannel had archived the channel
C9_Witness ==
    /\ last.op = "restoreChannel"
    /\ last.arg # Null
    /\ ~HasFields(last.arg, "archivedAt")
    /\ HasFields(last.before, "archivedAt")
    /\ Get(last.id) = last.arg

(* C10: editChannel's read and write are not atomic.  Whatever other writes
   completed between the two, editChannel's write returns no error and
   leaves every field of the record it read (other than the four inputs)
   at the value it read, so a value another operation set in between is
   silently overwritten. *)
C10_StaleWrite ==
    (last.op = "editChannel" /\ last.before # Null /\ last.arg.read # Null)
    => LET cur == Get(last.id)
           read == last.arg.read
           four == {"name", "description", "slug", "isPrivate"}
       IN  /\ ~last.threw
           /\ last.ret = cur
           /\ \A f \in DOMAIN read \ four : HasFields(cur, f) /\ cur[f] = read[f]
           /\ \A f \in four : cur[f] = last.arg.input[f]

\* restoreChannel completed between an edit's read and its write; the edit
\* put archivedAt back: the record is what neither order of the two calls
\* gives
C10_Witness ==
    /\ last.op = "editChannel"
    /\ last.arg.others = <<"restoreChannel">>
    /\ last.arg.read # Null
    /\ HasFields(last.arg.read, "archivedAt")
    /\ ~HasFields(last.before, "archivedAt")
    /\ ~last.threw
    /\ LET cur == Get(last.id)
           over == EditOverrides(last.arg.input)
           editThenRestore == Without(Merge(last.arg.read, over), {"archivedAt"})
           restoreThenEdit == Merge(Without(last.arg.read, {"archivedAt"}), over)
       IN  /\ HasFields(cur, "archivedAt")
           /\ cur # editThenRestore
           /\ cur # restoreThenEdit

====
